---- MODULE Spec2Model ----
\* Patient dashboard (client/app/patient/page.tsx, component PatientUI) and the
\* create form (component Home): React component state, the HTTP requests the
\* handlers put in flight, and the handling of each response or failure.
\* One page is mounted in a behaviour; the REST server is the environment.
EXTENDS Bags, FiniteSets, Integers, Sequences, TLC

\* ---------------------------------------------------------------- bounds
\* Requests sent in one behaviour (the code sets no limit).
MaxRequests == 4

\* ------------------------------------------------------- program constants
SortKeys == {"height", "weight", "bmi"}
Orders == {"asc", "desc"}
UpdateFields == {"name", "city", "age", "gender", "height", "weight"}
FormFields == {"id", "name", "gender", "city", "age", "height", "weight"}

EnterValidId == "Enter a valid patient ID."
PatientNotFound == "Patient not found."
AlertUpdated == "Patient updated successfully!"
AlertUpdateFailed == "Failed to update patient."
AlertDeleted == "Patient deleted successfully!"
AlertDeleteFailed == "Deletion failed."
AlertCreated == "Patient created successfully!"
AlertSubmitFailed == "Submission failed"
NoAlert == "none"

\* --------------------------------------------------------------- inputs
\* IDs the user types in the search box (besides the empty string).
PatientIds == {"P001", "P002"}
\* What the user types in a field of the edit form, and the fields typed in.
EditNames == {"name"}
EditValues == {"Zed"}
\* What the user types in a field of the create form.
FormValues == {"", "v"}
\* The detail of a failure: none (no response), or the server's detail text.
NoDetail == ""
Details == {NoDetail, "Patient not found"}

\* null of useState<any>(null)
Null == [isNull |-> TRUE]

\* The record the server returns for GET /patient/{id}: one value per field.
\* id is the ID of the request that obtained it.
PatientRecord(id) ==
    [id |-> id,
     name |-> id \o ".name", city |-> id \o ".city", age |-> id \o ".age",
     gender |-> id \o ".gender", height |-> id \o ".height",
     weight |-> id \o ".weight", bmi |-> id \o ".bmi",
     verdict |-> id \o ".verdict"]

VARIABLES
    page,           \* which page is mounted: "patient" (PatientUI) or "home" (Home)
    mounted,        \* PatientUI's mount effect has run
    patients,       \* PatientUI: the list shown
    loading,        \* PatientUI
    sortBy,         \* PatientUI
    order,          \* PatientUI
    patientId,      \* PatientUI
    singlePatient,  \* PatientUI
    error,          \* PatientUI
    updateData,     \* PatientUI
    formData,       \* Home
    homeLoading,    \* Home: its own `loading`
    inflight,       \* bag of HTTP requests sent and not yet completed
    sent,           \* number of requests sent so far
    alert,          \* the alert() raised by the step just taken, or NoAlert
    db              \* server: IDs of the records it holds

vars == <<page, mounted, patients, loading, sortBy, order, patientId,
          singlePatient, error, updateData, formData, homeLoading,
          inflight, sent, alert, db>>

dashVars == <<patients, loading, sortBy, order, patientId, singlePatient,
              error, updateData>>
homeVars == <<formData, homeLoading>>

\* ------------------------------------------------------------- requests
SortReq(by, ord) == [kind |-> "sort", sort_by |-> by, order |-> ord]
PatientReq(id) == [kind |-> "patient", id |-> id]
EditReq(id, body) == [kind |-> "edit", id |-> id, body |-> body]
DeleteReq(id) == [kind |-> "delete", id |-> id]
CreatedReq(body) == [kind |-> "created", body |-> body]

Send(r) == inflight' = inflight (+) SetToBag({r}) /\ sent' = sent + 1
Done(r) == inflight' = inflight (-) SetToBag({r}) /\ sent' = sent
Quiet == UNCHANGED <<inflight, sent>>
\* alert() is modal: no handler and no continuation runs until it is dismissed.
Idle == alert = NoAlert
InFlight(kind) == {r \in BagToSet(inflight) : r.kind = kind}
\* The completion (response or failure) of request r of this kind is delivered.
Arrives(r, kind) == Idle /\ r \in InFlight(kind)
CanSend == sent < MaxRequests

\* The list the server returns for GET /sort: the records it holds, sorted
\* by the server by (sort_by, order).
SortResponse(r) == [sort_by |-> r.sort_by, order |-> r.order, ids |-> db]
EmptyList == [sort_by |-> "none", order |-> "none", ids |-> {}]

BlankUpdate == [f \in UpdateFields |-> ""]
BlankForm == [f \in FormFields |-> ""]

Init ==
    /\ page \in {"patient", "home"}
    /\ mounted = FALSE
    /\ patients = EmptyList
    /\ loading = FALSE
    /\ sortBy = "height"
    /\ order = "asc"
    /\ patientId = ""
    /\ singlePatient = Null
    /\ error = ""
    /\ updateData = BlankUpdate
    /\ formData = BlankForm
    /\ homeLoading = FALSE
    /\ inflight = EmptyBag
    /\ sent = 0
    /\ alert = NoAlert
    /\ db = PatientIds

\* ===================================================== PatientUI (dashboard)
\* fetchSortedPatients, run by a render whose sortBy and order are (by, ord).
fetchSortedPatients(by, ord) ==
    /\ loading' = TRUE
    /\ Send(SortReq(by, ord))

\* useEffect(..., [sortBy, order]) on mount.
Mount ==
    /\ page = "patient" /\ ~mounted
    /\ mounted' = TRUE
    /\ fetchSortedPatients(sortBy, order)
    /\ alert' = NoAlert
    /\ UNCHANGED <<page, patients, sortBy, order, patientId, singlePatient,
                   error, updateData, homeVars, db>>

Ready == page = "patient" /\ mounted /\ Idle

\* <select value={sortBy} onChange=setSortBy>, then the effect of the render
\* that follows.
\* Mutant: the effect runs fetchSortedPatients of the previous render.
SetSortBy_Stale(v) ==
    /\ Ready /\ CanSend
    /\ v # sortBy
    /\ sortBy' = v
    /\ fetchSortedPatients(sortBy, order)
    /\ alert' = NoAlert
    /\ UNCHANGED <<page, mounted, patients, order, patientId, singlePatient,
                   error, updateData, homeVars, db>>

SetSortBy(v) ==
    /\ Ready /\ CanSend
    /\ v # sortBy
    /\ sortBy' = v
    /\ fetchSortedPatients(v, order)
    /\ alert' = NoAlert
    /\ UNCHANGED <<page, mounted, patients, order, patientId, singlePatient,
                   error, updateData, homeVars, db>>

SetOrder(v) ==
    /\ Ready /\ CanSend
    /\ v # order
    /\ order' = v
    /\ fetchSortedPatients(sortBy, v)
    /\ alert' = NoAlert
    /\ UNCHANGED <<page, mounted, patients, sortBy, patientId, singlePatient,
                   error, updateData, homeVars, db>>

\* Mutant: a click on Apply sends the request twice.
Apply_Twice ==
    /\ Ready /\ sent + 2 <= MaxRequests
    /\ loading' = TRUE
    /\ inflight' = (inflight (+) SetToBag({SortReq(sortBy, order)}))
                        (+) SetToBag({SortReq(sortBy, order)})
    /\ sent' = sent + 2
    /\ alert' = NoAlert
    /\ UNCHANGED <<page, mounted, patients, sortBy, order, patientId,
                   singlePatient, error, updateData, homeVars, db>>

\* The Apply button: onClick={fetchSortedPatients}.
Apply ==
    /\ Ready /\ CanSend
    /\ fetchSortedPatients(sortBy, order)
    /\ alert' = NoAlert
    /\ UNCHANGED <<page, mounted, patients, sortBy, order, patientId,
                   singlePatient, error, updateData, homeVars, db>>

\* fetchSortedPatients after the await: the response arrives.
FetchSortedOk(r) ==
    /\ Arrives(r, "sort")
    /\ Done(r)
    /\ patients' = SortResponse(r)
    /\ loading' = FALSE
    /\ alert' = NoAlert
    /\ UNCHANGED <<page, mounted, sortBy, order, patientId, singlePatient,
                   error, updateData, homeVars, db>>

\* Mutant: loading is cleared after the response only, not in a finally.
FetchSortedFail_NoFinally(r) ==
    /\ Arrives(r, "sort")
    /\ Done(r)
    /\ alert' = NoAlert
    /\ UNCHANGED <<page, mounted, patients, loading, sortBy, order, patientId,
                   singlePatient, error, updateData, homeVars, db>>

\* fetchSortedPatients after the await: the request fails (console.error).
FetchSortedFail(r) ==
    /\ Arrives(r, "sort")
    /\ Done(r)
    /\ loading' = FALSE
    /\ alert' = NoAlert
    /\ UNCHANGED <<page, mounted, patients, sortBy, order, patientId,
                   singlePatient, error, updateData, homeVars, db>>

\* The ID box: onChange={(e) => setPatientId(e.target.value)}.
SetPatientId(v) ==
    /\ Ready
    /\ v # patientId
    /\ patientId' = v
    /\ alert' = NoAlert
    /\ UNCHANGED <<page, mounted, patients, loading, sortBy, order,
                   singlePatient, error, updateData, homeVars, inflight, sent, db>>

\* Mutant: the state is reset before the empty ID is rejected.
handleSearch_ResetFirst ==
    /\ Ready
    /\ alert' = NoAlert
    /\ singlePatient' = Null
    /\ IF patientId = ""
       THEN /\ error' = EnterValidId
            /\ UNCHANGED loading /\ Quiet
       ELSE /\ CanSend
            /\ error' = ""
            /\ loading' = TRUE
            /\ Send(PatientReq(patientId))
    /\ UNCHANGED <<page, mounted, patients, sortBy, order, patientId,
                   updateData, homeVars, db>>

\* handleSearch up to the await.
handleSearch ==
    /\ Ready
    /\ alert' = NoAlert
    /\ IF patientId = ""
       THEN /\ error' = EnterValidId
            /\ UNCHANGED <<singlePatient, loading>> /\ Quiet
       ELSE /\ CanSend
            /\ error' = ""
            /\ singlePatient' = Null
            /\ loading' = TRUE
            /\ Send(PatientReq(patientId))
    /\ UNCHANGED <<page, mounted, patients, sortBy, order, patientId,
                   updateData, homeVars, db>>

\* Mutant: the record is stored but the edit form is not filled.
SearchOk_NoFill(r) ==
    /\ Arrives(r, "patient")
    /\ r.id \in db
    /\ Done(r)
    /\ singlePatient' = PatientRecord(r.id)
    /\ loading' = FALSE
    /\ alert' = NoAlert
    /\ UNCHANGED <<page, mounted, patients, sortBy, order, patientId, error,
                   updateData, homeVars, db>>

\* handleSearch after the await: the record arrives.
SearchOk(r) ==
    /\ Arrives(r, "patient")
    /\ r.id \in db
    /\ Done(r)
    /\ singlePatient' = PatientRecord(r.id)
    /\ updateData' = [f \in UpdateFields |-> PatientRecord(r.id)[f]]
    /\ loading' = FALSE
    /\ alert' = NoAlert
    /\ UNCHANGED <<page, mounted, patients, sortBy, order, patientId, error,
                   homeVars, db>>

\* handleSearch after the await: the request fails.
SearchFail(r, detail) ==
    /\ Arrives(r, "patient")
    /\ Done(r)
    /\ error' = IF detail # NoDetail THEN detail ELSE PatientNotFound
    /\ loading' = FALSE
    /\ alert' = NoAlert
    /\ UNCHANGED <<page, mounted, patients, sortBy, order, patientId,
                   singlePatient, updateData, homeVars, db>>

\* The edit form is rendered only when singlePatient is set.
handleUpdateChange(name, value) ==
    /\ Ready
    /\ singlePatient # Null
    /\ updateData' = [updateData EXCEPT ![name] = value]
    /\ alert' = NoAlert
    /\ UNCHANGED <<page, mounted, patients, loading, sortBy, order, patientId,
                   singlePatient, error, homeVars, inflight, sent, db>>

\* Mutant: updatePatient returns early on an empty ID.
updatePatient_Guarded ==
    /\ Ready /\ CanSend
    /\ singlePatient # Null
    /\ IF patientId = ""
       THEN error' = EnterValidId /\ Quiet
       ELSE error' = error /\ Send(EditReq(patientId, updateData))
    /\ alert' = NoAlert
    /\ UNCHANGED <<page, mounted, patients, loading, sortBy, order, patientId,
                   singlePatient, updateData, homeVars, db>>

\* updatePatient up to the await (the button is rendered only when
\* singlePatient is set).
updatePatient ==
    /\ Ready /\ CanSend
    /\ singlePatient # Null
    /\ Send(EditReq(patientId, updateData))
    /\ alert' = NoAlert
    /\ UNCHANGED <<page, mounted, dashVars, homeVars, db>>

UpdateOk(r) ==
    /\ Arrives(r, "edit")
    /\ r.id \in db
    /\ Done(r)
    /\ alert' = AlertUpdated
    /\ UNCHANGED <<page, mounted, dashVars, homeVars, db>>

UpdateFail(r) ==
    /\ Arrives(r, "edit")
    /\ Done(r)
    /\ alert' = AlertUpdateFailed
    /\ UNCHANGED <<page, mounted, dashVars, homeVars, db>>

\* deletePatient up to the await; confirmed is the answer to confirm().
deletePatient(confirmed) ==
    /\ Ready
    /\ singlePatient # Null
    /\ alert' = NoAlert
    /\ IF ~confirmed
       THEN Quiet
       ELSE CanSend /\ Send(DeleteReq(patientId))
    /\ UNCHANGED <<page, mounted, dashVars, homeVars, db>>

DeleteOk(r) ==
    /\ Arrives(r, "delete")
    /\ r.id \in db
    /\ Done(r)
    /\ db' = db \ {r.id}
    /\ alert' = AlertDeleted
    /\ singlePatient' = Null
    /\ patientId' = ""
    /\ UNCHANGED <<page, mounted, patients, loading, sortBy, order, error,
                   updateData, homeVars>>

\* Mutant: the record is cleared in a finally block, on failure too.
DeleteFail_Clears(r) ==
    /\ Arrives(r, "delete")
    /\ Done(r)
    /\ alert' = AlertDeleteFailed
    /\ singlePatient' = Null
    /\ patientId' = ""
    /\ UNCHANGED <<page, mounted, patients, loading, sortBy, order, error,
                   updateData, homeVars, db>>

DeleteFail(r) ==
    /\ Arrives(r, "delete")
    /\ Done(r)
    /\ alert' = AlertDeleteFailed
    /\ UNCHANGED <<page, mounted, dashVars, homeVars, db>>

\* ============================================================ Home (create)
handleChange(name, value) ==
    /\ page = "home" /\ Idle
    /\ formData[name] # value
    /\ formData' = [formData EXCEPT ![name] = value]
    /\ alert' = NoAlert
    /\ UNCHANGED <<page, mounted, dashVars, homeLoading, inflight, sent, db>>

\* Mutant: handleSubmit does not set loading.
handleSubmit_NoLoading ==
    /\ page = "home" /\ Idle /\ CanSend
    /\ ~homeLoading
    /\ Send(CreatedReq(formData))
    /\ alert' = NoAlert
    /\ UNCHANGED <<page, mounted, dashVars, formData, homeLoading, db>>

\* handleSubmit up to the await; the submit button is disabled={loading}.
handleSubmit ==
    /\ page = "home" /\ Idle /\ CanSend
    /\ ~homeLoading
    /\ homeLoading' = TRUE
    /\ Send(CreatedReq(formData))
    /\ alert' = NoAlert
    /\ UNCHANGED <<page, mounted, dashVars, formData, db>>

SubmitOk(r) ==
    /\ Arrives(r, "created")
    /\ Done(r)
    /\ alert' = AlertCreated
    /\ formData' = BlankForm
    /\ homeLoading' = FALSE
    /\ UNCHANGED <<page, mounted, dashVars, db>>

\* Mutant: the form is reset after the try/catch, on failure too.
SubmitFail_Resets(r) ==
    /\ Arrives(r, "created")
    /\ Done(r)
    /\ alert' = AlertSubmitFailed
    /\ formData' = BlankForm
    /\ homeLoading' = FALSE
    /\ UNCHANGED <<page, mounted, dashVars, db>>

SubmitFail(r) ==
    /\ Arrives(r, "created")
    /\ Done(r)
    /\ alert' = AlertSubmitFailed
    /\ homeLoading' = FALSE
    /\ UNCHANGED <<page, mounted, dashVars, formData, db>>

\* The user closes the alert() dialog.
DismissAlert ==
    /\ alert # NoAlert
    /\ alert' = NoAlert
    /\ UNCHANGED <<page, mounted, dashVars, homeVars, inflight, sent, db>>

\* ------------------------------------------------------------------ Next
Requests == BagToSet(inflight)

Next ==
    \/ Mount
    \/ \E v \in SortKeys : SetSortBy(v)
    \/ \E v \in Orders : SetOrder(v)
    \/ Apply
    \/ \E r \in Requests : FetchSortedOk(r)
    \/ \E r \in Requests : FetchSortedFail(r)
    \/ \E v \in PatientIds \cup {""} : SetPatientId(v)
    \/ handleSearch
    \/ \E r \in Requests : SearchOk(r)
    \/ \E r \in Requests, d \in Details : SearchFail(r, d)
    \/ \E n \in EditNames, v \in EditValues : handleUpdateChange(n, v)
    \/ updatePatient
    \/ \E r \in Requests : UpdateOk(r)
    \/ \E r \in Requests : UpdateFail(r)
    \/ \E c \in BOOLEAN : deletePatient(c)
    \/ \E r \in Requests : DeleteOk(r)
    \/ \E r \in Requests : DeleteFail(r)
    \/ \E n \in FormFields, v \in FormValues : handleChange(n, v)
    \/ handleSubmit
    \/ \E r \in Requests : SubmitOk(r)
    \/ \E r \in Requests : SubmitFail(r)
    \/ DismissAlert

Spec == Init /\ [][Next]_vars

\* ================================================================ claims
\* Request r is sent by this step.
NewlySent(r) == CopiesIn(r, inflight') > CopiesIn(r, inflight)
\* This step sends exactly request r and completes none.
SendsOnly(r) == inflight' = inflight (+) SetToBag({r})
Pending == BagCardinality(inflight)

\* C1: every PUT /edit/{id} sent by updatePatient and every DELETE
\* /delete/{id} sent by deletePatient carries the ID that was searched to
\* obtain the record held in singlePatient when it is sent.
C1_ActsOnFoundRecord ==
    [][\A r \in BagToSet(inflight') :
          (r.kind \in {"edit", "delete"} /\ NewlySent(r))
              => (singlePatient # Null /\ r.id = singlePatient.id)]_vars

\* C2: every step that handles the failure of a request raises an alert or
\* leaves an error message set, and sends no request (no retry).
FailureHandled ==
    \E r \in Requests :
        \/ FetchSortedFail(r)
        \/ \E d \in Details : SearchFail(r, d)
        \/ UpdateFail(r)
        \/ DeleteFail(r)
        \/ SubmitFail(r)

C2_FailureSurfaced ==
    [][FailureHandled =>
          /\ (alert' # NoAlert \/ error' # "")
          /\ \A r \in BagToSet(inflight') : ~NewlySent(r)]_vars

\* C3: whenever a GET /sort has been sent and none is in flight, the list
\* shown is the response to a request for the selected (sortBy, order).
C3_ListMatchesSelection ==
    (mounted /\ InFlight("sort") = {})
        => (patients.sort_by = sortBy /\ patients.order = order)

\* The completion of request r is handled by this step.
Completion(r) ==
    \/ FetchSortedOk(r) \/ FetchSortedFail(r)
    \/ SearchOk(r) \/ (\E d \in Details : SearchFail(r, d))
    \/ UpdateOk(r) \/ UpdateFail(r)
    \/ DeleteOk(r) \/ DeleteFail(r)
    \/ SubmitOk(r) \/ SubmitFail(r)

\* C4: a step sends at most one request and cancels none; a request leaves
\* the requests in flight only in the step that handles its completion, one
\* request per step.
C4_OneRequestPerAction ==
    [][\/ inflight' = inflight
       \/ \E r \in BagToSet(inflight') : SendsOnly(r)
       \/ \E r \in Requests :
              /\ inflight' = inflight (-) SetToBag({r})
              /\ Completion(r)]_vars

\* Every request sent has been completed, after requests overlapped.
C4_Witness == sent >= 3 /\ inflight = EmptyBag /\ singlePatient # Null

\* A handler is invoked (mount, selection change, Apply, Search, Update,
\* Delete, Submit).
Invocation ==
    \/ Mount
    \/ \E v \in SortKeys : SetSortBy(v)
    \/ \E v \in Orders : SetOrder(v)
    \/ Apply
    \/ handleSearch
    \/ updatePatient
    \/ \E c \in BOOLEAN : deletePatient(c)
    \/ handleSubmit

\* C5 (as stated): every invocation of a handler sends a request, whatever
\* the component state.
C5_EveryInvocationSends ==
    [][Invocation => \E r \in BagToSet(inflight') : SendsOnly(r)]_vars

\* C5 (amended): fetchSortedPatients, updatePatient and handleSubmit send
\* their request in every state; handleSearch sends GET /patient/{id} when
\* patientId is not empty and nothing otherwise; deletePatient sends DELETE
\* /delete/{id} when the user confirms and nothing otherwise.
C5_SendsUnlessRejected ==
    [][/\ (Mount \/ Apply) => SendsOnly(SortReq(sortBy, order))
       /\ \A v \in SortKeys : SetSortBy(v) => SendsOnly(SortReq(v, order))
       /\ \A v \in Orders : SetOrder(v) => SendsOnly(SortReq(sortBy, v))
       /\ handleSearch =>
              IF patientId = "" THEN inflight' = inflight
              ELSE SendsOnly(PatientReq(patientId))
       /\ updatePatient => SendsOnly(EditReq(patientId, updateData))
       /\ \A c \in BOOLEAN : deletePatient(c) =>
              IF c THEN SendsOnly(DeleteReq(patientId))
              ELSE inflight' = inflight
       /\ handleSubmit => SendsOnly(CreatedReq(formData))]_vars

\* updatePatient has sent PUT /edit/ with an empty ID, and an empty search
\* was rejected.
C5_Witness ==
    /\ \E r \in InFlight("edit") : r.id = ""
    /\ error = EnterValidId

\* C6: every GET /sort carries sort_by in {height, weight, bmi} and order in
\* {asc, desc}, equal to the sortBy and order selected when it is sent; the
\* request of the mount carries (height, asc).
C6_SortRequestCarriesSelection ==
    [][\A r \in BagToSet(inflight') :
          (r.kind = "sort" /\ NewlySent(r)) =>
              /\ r.sort_by \in SortKeys /\ r.order \in Orders
              /\ r.sort_by = sortBy' /\ r.order = order'
              /\ ~mounted => (r.sort_by = "height" /\ r.order = "asc")]_vars

C6_Witness ==
    /\ sortBy = "bmi" /\ order = "desc"
    /\ SortReq("bmi", "desc") \in InFlight("sort")
    /\ SortReq("height", "asc") \in InFlight("sort")

\* C7: in the create form loading is true exactly when a POST /created is
\* in flight, so at most one is in flight; when it is false again a new
\* submission is possible.
C7_LoadingIffPostInFlight ==
    page = "home" =>
        /\ homeLoading <=> (InFlight("created") # {})
        /\ Pending <= 1
        /\ (~homeLoading /\ Idle /\ CanSend) => ENABLED handleSubmit

\* A second submission is in flight after the first was completed.
C7_Witness == page = "home" /\ homeLoading /\ sent = 2 /\ Pending = 1

\* C8: a search with an empty patientId sets error to "Enter a valid patient
\* ID.", sends no request and leaves singlePatient, updateData, loading and
\* patients unchanged.
C8_EmptySearchFrame ==
    [][(handleSearch /\ patientId = "") =>
          /\ error' = EnterValidId
          /\ inflight' = inflight
          /\ UNCHANGED <<singlePatient, updateData, loading, patients>>]_vars

\* An empty search was rejected while a record was shown and a request was
\* in flight.
C8_Witness ==
    /\ error = EnterValidId /\ patientId = ""
    /\ singlePatient # Null /\ loading

\* C9: a successful DELETE clears singlePatient and patientId; a declined
\* confirmation sends nothing and changes nothing; a failed DELETE leaves
\* singlePatient, patientId and updateData unchanged.
C9_DeleteClearsOnSuccessOnly ==
    [][/\ \A r \in Requests :
              /\ DeleteOk(r) => (singlePatient' = Null /\ patientId' = "")
              /\ DeleteFail(r) =>
                     UNCHANGED <<singlePatient, patientId, updateData>>
       /\ deletePatient(FALSE) => UNCHANGED <<dashVars, inflight>>]_vars

\* A DELETE has failed with the record still shown.
C9_Witness ==
    /\ alert = AlertDeleteFailed
    /\ singlePatient # Null /\ patientId = singlePatient.id

\* C10: in the dashboard loading is true whenever a GET /sort or a GET
\* /patient/{id} is in flight.
C10_LoadingWhileInFlight ==
    (InFlight("sort") \cup InFlight("patient")) # {} => loading

\* C11: the dashboard never holds an error message and a found patient at
\* the same time.
C11_ErrorExcludesRecord == error # "" => singlePatient = Null

\* C12: once no request is in flight, the list shown holds no patient that
\* a successful DELETE has removed (db loses an ID only in DeleteOk).
C12_ListReflectsDelete ==
    inflight = EmptyBag => patients.ids \cap (PatientIds \ db) = {}

\* C13: whenever singlePatient is set, every field of the edit form holds
\* the value of that field in the record in singlePatient, or a value the
\* user typed into that field (handleUpdateChange); a search response sets
\* both in one step.
C13_FormFromRecord ==
    singlePatient # Null =>
        \A f \in UpdateFields :
            \/ updateData[f] = singlePatient[f]
            \/ f \in EditNames /\ updateData[f] \in EditValues

\* Two searches overlapped: the user edited and sent the form of the first
\* record, then the second response replaced the record and the form.
C13_Witness ==
    /\ singlePatient # Null /\ singlePatient.id = "P002"
    /\ updateData = [f \in UpdateFields |-> PatientRecord("P002")[f]]
    /\ \E r \in InFlight("edit") :
           r.body["name"] = "Zed" /\ r.body["city"] = PatientRecord("P001").city

\* The completion of a GET /sort or GET /patient/{id} is handled.
GetCompletion ==
    \E r \in Requests :
        \/ FetchSortedOk(r) \/ FetchSortedFail(r)
        \/ SearchOk(r) \/ (\E d \in Details : SearchFail(r, d))

\* Every request sent is eventually answered or fails, and an alert() on
\* screen is eventually dismissed (no continuation runs while it is open).
FairSpec ==
    /\ Spec
    /\ WF_vars(GetCompletion)
    /\ WF_vars(\E r \in Requests : Completion(r))
    /\ WF_vars(DismissAlert)

\* C14: when every request is eventually completed, loading in the
\* dashboard eventually becomes false, and it is false whenever no GET
\* /sort and no GET /patient/{id} is in flight.
C14_LoadingEnds ==
    /\ loading ~> ~loading
    /\ []((InFlight("sort") \cup InFlight("patient")) = {} => ~loading)

\* loading is false again after overlapping requests, one of them failed.
C14_Witness ==
    /\ mounted /\ ~loading /\ inflight = EmptyBag
    /\ sent >= 3 /\ error = PatientNotFound /\ patients = EmptyList

\* C15: the step that handles a successful POST /created leaves all seven
\* fields of formData empty; the step that handles a failed POST leaves
\* formData unchanged.
C15_FormResetOnSuccessOnly ==
    [][\A r \in Requests :
          /\ SubmitOk(r) => (\A f \in FormFields : formData'[f] = "")
          /\ SubmitFail(r) => formData' = formData]_vars

\* A POST has failed and the entered values are still in the form.
C15_Witness ==
    /\ alert = AlertSubmitFailed /\ ~homeLoading
    /\ \A f \in FormFields : formData[f] = "v"

====
